---- MODULE Spec2Model ----
(***************************************************************************)
(* State-machine model of the WendySnipe log-subscription and              *)
(* pool-qualification pipeline: src/src/core/websocket.rs                  *)
(* (WebsocketMonitor) as driven by src/src/core/mod.rs.                    *)
(*                                                                         *)
(* Spec          the monitor: connect, subscribe, read loop, per-frame     *)
(*               pipeline (classify, environment gate, extract, criteria,  *)
(*               handoff) and the ways subscribe_to_logs returns.          *)
(* SpecClassify  is_create_idempotent applied to bounded notifications.    *)
(* SpecCriteria  is_valid_pump_fun_criteria applied to bounded counts.     *)
(* SpecHolder    get_holder_count called repeatedly against a bounded      *)
(*               ledger.                                                   *)
(* SpecStream    the monitor with the peer delivering frames to the socket *)
(*               while the pipeline of an earlier frame is still running.  *)
(* SpecKeepalive Spec with keepalive intervals elapsing on the connection. *)
(* SpecStart     PoolMonitor::start: balance check, then the monitor.      *)
(***************************************************************************)
EXTENDS Integers, Sequences, FiniteSets, TLC

VARIABLES
    environment,    \* self.config.environment: "Development" | "Production"
    pc,             \* position in subscribe_to_logs / process_logs
    result,         \* value returned by subscribe_to_logs ("pending" until it returns)
    connects,       \* number of connect_async calls made
    delays,         \* back-off delays slept between connects, in ms
    outbound,       \* frames written to the websocket, in order
    frame_no,       \* number of inbound frames taken from the stream
    cur,            \* the last inbound frame and what the loop body did with it
    handoffs,       \* calls of handle_valid_pool_creation, in order
    unique_keys,    \* number of Pubkey::new_unique() calls made
    log,            \* tracing records emitted by the last step
    token_metrics,  \* WebsocketMonitor.token_metrics (token -> criteria)
    cl_input,       \* SpecClassify: the notification given to is_create_idempotent
    cl_result,      \* SpecClassify: what it returned
    cr_input,       \* SpecCriteria: the PumpFunCriteria evaluated
    cr_result,      \* SpecCriteria: what is_valid_pump_fun_criteria returned
    ledger,         \* SpecHolder: token accounts held by the external ledger service
    ledger_queries, \* SpecHolder: account-ownership queries issued to the ledger
    hc_calls,       \* SpecHolder: values returned by get_holder_count, in call order
    rpc_balance,    \* SpecStart: outcome of rpc_client.get_balance: <<>> (error) or <<lamports>>
    min_sol_balance,\* SpecStart: config.wallet.min_sol_balance
    ticks,          \* SpecKeepalive: 30-second intervals elapsed on the open connection
    arrived,        \* SpecStream: frames the peer has delivered to the socket, in arrival order
    inflight        \* SpecStream: the frame next() yielded whose loop body has not finished

monitorVars  == <<environment, pc, result, connects, delays, outbound, frame_no,
                  cur, handoffs, unique_keys, log>>
classifyVars == <<cl_input, cl_result>>
criteriaVars == <<cr_input, cr_result>>
holderVars   == <<ledger, ledger_queries, hc_calls>>
hostVars     == <<rpc_balance, min_sol_balance, ticks>>
streamVars   == <<arrived, inflight>>
vars == <<monitorVars, token_metrics, classifyVars, criteriaVars, holderVars, hostVars, streamVars>>

(***************************************************************************)
(* Bounds of the model.                                                    *)
(***************************************************************************)
MaxFrames     == 2   \* inbound frames read on the connection (Spec)
MaxFrameLines == 1   \* log lines per notification in Spec
MaxLines      == 2   \* log lines per notification in SpecClassify
MaxWords      == 2   \* recognised substrings per log line in SpecClassify
MaxCount      == 302 \* largest holder/buy count in SpecCriteria
MaxAccounts   == 3   \* token accounts per ledger sub-query in SpecHolder
MaxCalls      == 2   \* get_holder_count calls in SpecHolder
MaxTicks      == 2   \* keepalive intervals elapsing in SpecKeepalive
MaxBalance    == 2   \* largest balance and minimum balance in SpecStart

(***************************************************************************)
(* Program constants.                                                      *)
(***************************************************************************)
min_holders == 140
min_buys    == 140
max_buys    == 300
PlaceholderHolderCount == 150
PlaceholderBuyCount    == 200

CreateMarker == "CreateIdempotent"
PumpFunId    == "TokenkegQfeZyiNwAJbNbGKPFXCWuBvf9Ss623VQ5DA"
DaoFunId     == "5jnapfrAN47UYkLkEf7HnprPPBCQLvkYWGZDeKkaP5hv"

\* enum PoolType; "None" stands for Option::None of Option<PoolType>
PoolType == {"PumpFun", "DaoFun"}
Environment == {"Development", "Production"}

\* the logsSubscribe request built by subscribe_to_logs
subscribe_msg ==
    [jsonrpc |-> "2.0", id |-> 1, method |-> "logsSubscribe",
     mentions |-> <<PumpFunId, DaoFunId, CreateMarker>>,
     commitment |-> "processed"]

(***************************************************************************)
(* Inbound data.  A frame is the text of one websocket message.  It either *)
(* fails serde_json::from_str (json = FALSE) or is a JSON value, of which  *)
(* the code reads only result.logs, result.signature and result.slot.      *)
(* A log line is a JSON array element: a string (is_str), given by the     *)
(* recognised substrings it contains in order of occurrence, or another    *)
(* JSON value.  NoString is a signature that is absent or not a string,    *)
(* NoU64 a slot that is absent or not an unsigned integer.                 *)
(***************************************************************************)
NoString == "<none>"
NoU64    == -1
Words    == {CreateMarker, PumpFunId, DaoFunId}

RECURSIVE SeqsUpTo(_, _)
SeqsUpTo(S, n) ==
    IF n = 0 THEN {<<>>}
    ELSE LET shorter == SeqsUpTo(S, n - 1)
         IN  shorter \cup {Append(s, x) : s \in {t \in shorter : Len(t) = n - 1}, x \in S}

StrLine(ws)  == [is_str |-> TRUE, words |-> ws]
NonStrLine   == [is_str |-> FALSE, words |-> <<>>]

\* logs: kind "absent" (no result.logs), "other" (not an array), "array"
LogsAbsent   == [kind |-> "absent", items |-> <<>>]
LogsNotArray == [kind |-> "other", items |-> <<>>]
LogsArray(a) == [kind |-> "array", items |-> a]

InvalidJson == [json |-> FALSE, has_result |-> FALSE, logs |-> LogsAbsent,
                signature |-> NoString, slot |-> NoU64]
NoResult    == [json |-> TRUE, has_result |-> FALSE, logs |-> LogsAbsent,
                signature |-> NoString, slot |-> NoU64]
Notification(l, sig, slot) ==
    [json |-> TRUE, has_result |-> TRUE, logs |-> l, signature |-> sig, slot |-> slot]

\* str::contains
Contains(line, w) == \E i \in DOMAIN line.words : line.words[i] = w

(***************************************************************************)
(* WebsocketMonitor::is_create_idempotent                                  *)
(***************************************************************************)
\* ScanLogs looking for a PumpFun line in the whole array before any DaoFun line
ScanLogs_pump_first(log_array, i) ==
    LET Marked(id) == \E k \in i..Len(log_array) :
                          /\ log_array[k].is_str
                          /\ Contains(log_array[k], CreateMarker)
                          /\ Contains(log_array[k], id)
    IN  IF Marked(PumpFunId) THEN "PumpFun"
        ELSE IF Marked(DaoFunId) THEN "DaoFun"
        ELSE "None"

RECURSIVE ScanLogs(_, _)
ScanLogs(log_array, i) ==
    IF i > Len(log_array) THEN "None"
    ELSE LET log_str == log_array[i]
         IN  IF log_str.is_str /\ Contains(log_str, CreateMarker)
                THEN IF Contains(log_str, PumpFunId) THEN "PumpFun"
                     ELSE IF Contains(log_str, DaoFunId) THEN "DaoFun"
                     ELSE ScanLogs(log_array, i + 1)
                ELSE ScanLogs(log_array, i + 1)

is_create_idempotent(log_data) ==
    IF log_data.has_result /\ log_data.logs.kind # "absent"
        THEN IF log_data.logs.kind = "array"
                THEN ScanLogs(log_data.logs.items, 1)
                ELSE "None"
        ELSE "None"

(***************************************************************************)
(* PumpFunCriteria and its evaluation                                      *)
(***************************************************************************)
\* PumpFunCriteria { holder_count, buy_count, ..Default::default() }
PumpFunCriteria(hc, bc) ==
    [holder_count |-> hc, buy_count |-> bc,
     min_holders |-> min_holders, min_buys |-> min_buys, max_buys |-> max_buys]

\* is_valid_pump_fun_criteria with every comparison made strict
is_valid_pump_fun_criteria_strict(criteria) ==
    criteria.holder_count > criteria.min_holders /\
    criteria.buy_count > criteria.min_buys /\
    criteria.buy_count < criteria.max_buys

is_valid_pump_fun_criteria(criteria) ==
    criteria.holder_count >= criteria.min_holders /\
    criteria.buy_count >= criteria.min_buys /\
    criteria.buy_count <= criteria.max_buys

Info(m)  == [level |-> "info",  msg |-> m]
Warn(m)  == [level |-> "warn",  msg |-> m]
Error(m) == [level |-> "error", msg |-> m]
Debug(m) == [level |-> "debug", msg |-> m]

\* log_criteria_check warning only when both checks fail
log_criteria_check_both(token_address, criteria) ==
    LET holder_check == criteria.holder_count >= criteria.min_holders
        buy_check    == criteria.buy_count >= criteria.min_buys /\
                        criteria.buy_count <= criteria.max_buys
        validation   == [level |-> "info", msg |-> "Token validation",
                         holder_mark |-> holder_check, buy_mark |-> buy_check]
    IN  IF ~holder_check /\ ~buy_check
            THEN <<validation, [level |-> "warn", msg |-> "Pool creation ignored",
                                holder_mark |-> holder_check, buy_mark |-> buy_check]>>
            ELSE <<validation>>

\* the records log_criteria_check emits; the validation record carries the
\* two check marks
log_criteria_check(token_address, criteria) ==
    LET holder_check == criteria.holder_count >= criteria.min_holders
        buy_check    == criteria.buy_count >= criteria.min_buys /\
                        criteria.buy_count <= criteria.max_buys
        validation   == [level |-> "info", msg |-> "Token validation",
                         holder_mark |-> holder_check, buy_mark |-> buy_check]
    IN  IF ~holder_check \/ ~buy_check
            THEN <<validation, [level |-> "warn", msg |-> "Pool creation ignored",
                                holder_mark |-> holder_check, buy_mark |-> buy_check]>>
            ELSE <<validation>>

(***************************************************************************)
(* Enrichment: both lookups are placeholders that ignore the token, the    *)
(* ledger and the token_metrics cache.                                     *)
(***************************************************************************)
get_holder_count(token_address) == PlaceholderHolderCount

get_buy_count(token_address) == PlaceholderBuyCount

verify_pump_fun_criteria(token_address) ==
    PumpFunCriteria(get_holder_count(token_address), get_buy_count(token_address))

(***************************************************************************)
(* WebsocketMonitor::extract_pool_creation_event.  uniq is the number of   *)
(* Pubkey::new_unique() calls made so far; the two placeholder addresses   *)
(* are drawn after the signature check and before the slot check.          *)
(***************************************************************************)
NoEvent == <<>>

extract_pool_creation_event(log_data, pool_type, uniq) ==
    IF ~log_data.has_result \/ log_data.signature = NoString
        THEN [ok |-> FALSE, err |-> "Missing signature", event |-> NoEvent, uniq |-> uniq]
    ELSE IF log_data.slot = NoU64
        THEN [ok |-> FALSE, err |-> "Missing slot", event |-> NoEvent, uniq |-> uniq + 2]
    ELSE [ok |-> TRUE, err |-> "",
          event |-> <<[signature     |-> log_data.signature,
                       pool_address  |-> uniq + 1,
                       token_address |-> uniq + 2,
                       holder_count  |-> 0,
                       buy_count     |-> 0,
                       slot          |-> log_data.slot,
                       pool_type     |-> pool_type]>>,
          uniq |-> uniq + 2]

(***************************************************************************)
(* What one pass of the loop body does: ret is "Ok" or the error the `?`   *)
(* operators carry out of process_logs; handed are the events given to     *)
(* handle_valid_pool_creation; criteria the PumpFunCriteria evaluated.     *)
(***************************************************************************)
Pass(stage, ret, handed, criteria, logs, uniq) ==
    [stage |-> stage, ret |-> ret, handed |-> handed, criteria |-> criteria,
     logs |-> logs, uniq |-> uniq]

\* handle_valid_pool_creation returning an execution error to its caller
handle_valid_pool_creation_failing(event) ==
    [ret |-> "Execution failed", logs |-> <<Info("Processing valid pool creation")>>,
     handed |-> <<event>>]

\* handle_valid_pool_creation: logs the event, executes nothing, returns Ok
handle_valid_pool_creation(event) ==
    [ret |-> "Ok", logs |-> <<Info("Processing valid pool creation")>>,
     handed |-> <<event>>]

\* handle_pump_fun_creation with the criteria test negated
handle_pump_fun_creation_negated(log_data, uniq) ==
    LET ex == extract_pool_creation_event(log_data, "PumpFun", uniq)
    IN  IF ~ex.ok
            THEN Pass("extract_err", ex.err, <<>>, <<>>, <<>>, ex.uniq)
        ELSE
            LET event    == ex.event[1]
                criteria == verify_pump_fun_criteria(event.token_address)
                checked  == log_criteria_check(event.token_address, criteria)
            IN  IF ~is_valid_pump_fun_criteria(criteria)
                    THEN LET h == handle_valid_pool_creation(event)
                         IN  Pass("handed", h.ret, h.handed, <<criteria>>,
                                  checked \o <<Info("Valid pump.fun pool creation detected")>>
                                          \o h.logs, ex.uniq)
                    ELSE Pass("criteria_fail", "Ok", <<>>, <<criteria>>, checked, ex.uniq)

handle_pump_fun_creation(log_data, uniq) ==
    LET ex == extract_pool_creation_event(log_data, "PumpFun", uniq)
    IN  IF ~ex.ok
            THEN Pass("extract_err", ex.err, <<>>, <<>>, <<>>, ex.uniq)
        ELSE
            LET event    == ex.event[1]
                criteria == verify_pump_fun_criteria(event.token_address)
                checked  == log_criteria_check(event.token_address, criteria)
            IN  IF is_valid_pump_fun_criteria(criteria)
                    THEN LET h == handle_valid_pool_creation(event)
                         IN  Pass("handed", h.ret, h.handed, <<criteria>>,
                                  checked \o <<Info("Valid pump.fun pool creation detected")>>
                                          \o h.logs, ex.uniq)
                    ELSE Pass("criteria_fail", "Ok", <<>>, <<criteria>>, checked, ex.uniq)

\* handle_dao_fun_creation sent through the criteria as PumpFun events are
handle_dao_fun_creation_checked(log_data, uniq) ==
    LET ex == extract_pool_creation_event(log_data, "DaoFun", uniq)
    IN  IF ~ex.ok
            THEN Pass("extract_err", ex.err, <<>>, <<>>, <<>>, ex.uniq)
        ELSE
            LET event    == ex.event[1]
                criteria == verify_pump_fun_criteria(event.token_address)
                checked  == log_criteria_check(event.token_address, criteria)
            IN  IF is_valid_pump_fun_criteria(criteria)
                    THEN LET h == handle_valid_pool_creation(event)
                         IN  Pass("handed", h.ret, h.handed, <<criteria>>,
                                  checked \o <<Info("Valid dao.fun pool creation detected")>>
                                          \o h.logs, ex.uniq)
                    ELSE Pass("criteria_fail", "Ok", <<>>, <<criteria>>, checked, ex.uniq)

handle_dao_fun_creation(log_data, uniq) ==
    LET ex == extract_pool_creation_event(log_data, "DaoFun", uniq)
    IN  IF ~ex.ok
            THEN Pass("extract_err", ex.err, <<>>, <<>>, <<>>, ex.uniq)
        ELSE
            LET event == ex.event[1]
                h     == handle_valid_pool_creation(event)
            IN  Pass("handed", h.ret, h.handed, <<>>,
                     <<Info("Valid dao.fun pool creation detected")>> \o h.logs, ex.uniq)

(***************************************************************************)
(* The Ok(msg) arm of the loop of process_logs: parse, classify, match on  *)
(* (pool_type, environment), handle.                                       *)
(***************************************************************************)
\* loop_body matching on the pool type alone, the environment ignored
loop_body_ungated(msg, env, uniq) ==
    IF ~msg.json THEN Pass("decode_skip", "Ok", <<>>, <<>>, <<>>, uniq)
    ELSE
        LET pool_type == is_create_idempotent(msg)
        IN  IF pool_type = "None"
                THEN Pass("unclassified", "Ok", <<>>, <<>>, <<>>, uniq)
            ELSE IF pool_type = "PumpFun"
                THEN LET p == handle_pump_fun_creation(msg, uniq)
                     IN  [p EXCEPT !.logs =
                            <<Info("Detected pump.fun pool creation in development")>> \o @]
            ELSE LET p == handle_dao_fun_creation(msg, uniq)
                 IN  [p EXCEPT !.logs =
                        <<Info("Detected dao.fun pool creation in production")>> \o @]

\* loop_body with the parse error carried out by `?` instead of skipped
loop_body_parse_strict(msg, env, uniq) ==
    IF ~msg.json THEN Pass("decode_err", "Invalid JSON", <<>>, <<>>, <<>>, uniq)
    ELSE
        LET pool_type == is_create_idempotent(msg)
        IN  IF pool_type = "None"
                THEN Pass("unclassified", "Ok", <<>>, <<>>, <<>>, uniq)
            ELSE IF pool_type = "PumpFun" /\ env = "Development"
                THEN LET p == handle_pump_fun_creation(msg, uniq)
                     IN  [p EXCEPT !.logs =
                            <<Info("Detected pump.fun pool creation in development")>> \o @]
            ELSE IF pool_type = "DaoFun" /\ env = "Production"
                THEN LET p == handle_dao_fun_creation(msg, uniq)
                     IN  [p EXCEPT !.logs =
                            <<Info("Detected dao.fun pool creation in production")>> \o @]
            ELSE Pass("env_mismatch", "Ok", <<>>, <<>>,
                      <<Debug("Ignoring pool creation - environment mismatch")>>, uniq)

loop_body(msg, env, uniq) ==
    IF ~msg.json THEN Pass("decode_skip", "Ok", <<>>, <<>>, <<>>, uniq)
    ELSE
        LET pool_type == is_create_idempotent(msg)
        IN  IF pool_type = "None"
                THEN Pass("unclassified", "Ok", <<>>, <<>>, <<>>, uniq)
            ELSE IF pool_type = "PumpFun" /\ env = "Development"
                THEN LET p == handle_pump_fun_creation(msg, uniq)
                     IN  [p EXCEPT !.logs =
                            <<Info("Detected pump.fun pool creation in development")>> \o @]
            ELSE IF pool_type = "DaoFun" /\ env = "Production"
                THEN LET p == handle_dao_fun_creation(msg, uniq)
                     IN  [p EXCEPT !.logs =
                            <<Info("Detected dao.fun pool creation in production")>> \o @]
            ELSE Pass("env_mismatch", "Ok", <<>>, <<>>,
                      <<Debug("Ignoring pool creation - environment mismatch")>>, uniq)

(***************************************************************************)
(* Input universes                                                         *)
(***************************************************************************)
Signatures == {"5VERv8NMvzbJMEkV8xnrLkEaWRtSz9CosKDYjCJjBRnb"}
Slots      == {250000000}
Tokens     == {"mintA", "mintB"}

\* log lines of the frames delivered in Spec
FrameLines ==
    {StrLine(<<>>), StrLine(<<CreateMarker>>),
     StrLine(<<CreateMarker, PumpFunId>>), StrLine(<<CreateMarker, DaoFunId>>)}

Frames ==
    {InvalidJson, NoResult} \cup
    {Notification(l, sig, slot) :
        l \in {LogsAbsent} \cup {LogsArray(a) : a \in SeqsUpTo(FrameLines, MaxFrameLines)},
        sig \in Signatures \cup {NoString},
        slot \in Slots \cup {NoU64}}

\* notifications given to is_create_idempotent in SpecClassify
ClassifyLines == {NonStrLine} \cup {StrLine(ws) : ws \in SeqsUpTo(Words, MaxWords)}

ClassifyInputs ==
    {NoResult} \cup
    {Notification(l, NoString, NoU64) :
        l \in {LogsAbsent, LogsNotArray} \cup
              {LogsArray(a) : a \in SeqsUpTo(ClassifyLines, MaxLines)}}

\* a token account of the ledger: its balance, or Undecodable
Undecodable   == -1
AccountStates == {0, 2, 5, Undecodable}
SubQueries    == [ok : BOOLEAN, accounts : SeqsUpTo(AccountStates, MaxAccounts)]
Ledgers       == [legacy : SubQueries, extended : SubQueries]

(***************************************************************************)
(* Initial states                                                          *)
(***************************************************************************)
MonitorIdle ==
    /\ pc = "connect"
    /\ result = "pending"
    /\ connects = 0
    /\ delays = <<>>
    /\ outbound = <<>>
    /\ frame_no = 0
    /\ cur = <<>>
    /\ handoffs = <<>>
    /\ unique_keys = 0
    /\ log = <<>>
    /\ token_metrics = <<>>          \* HashMap::new()

ClassifyIdle == cl_input = NoResult /\ cl_result = "pending"
CriteriaIdle == cr_input = PumpFunCriteria(0, 0) /\ cr_result = <<>>
HolderIdle   ==
    /\ ledger = [legacy |-> [ok |-> TRUE, accounts |-> <<>>],
                 extended |-> [ok |-> TRUE, accounts |-> <<>>]]
    /\ ledger_queries = 0
    /\ hc_calls = <<>>

\* the balance check has passed and no keepalive interval has elapsed
HostIdle == rpc_balance = <<0>> /\ min_sol_balance = 0 /\ ticks = 0

\* nothing has been delivered to the socket and no loop body is running
StreamIdle == arrived = <<>> /\ inflight = <<>>

Init ==
    /\ environment \in Environment
    /\ MonitorIdle /\ ClassifyIdle /\ CriteriaIdle /\ HolderIdle /\ HostIdle /\ StreamIdle

(***************************************************************************)
(* subscribe_to_logs and process_logs                                      *)
(***************************************************************************)
Return(value) == pc' = "returned" /\ result' = value

\* connect_async(&self.ws_url).await succeeds
ConnectOk ==
    /\ pc = "connect"
    /\ connects' = connects + 1
    /\ pc' = "subscribe"
    /\ log' = <<Info("Connecting to websocket..."), Info("WebSocket connected successfully")>>
    /\ UNCHANGED <<environment, result, delays, outbound, frame_no, cur, handoffs,
                   unique_keys, token_metrics, classifyVars, criteriaVars, holderVars, hostVars, streamVars>>

\* connect_async(&self.ws_url).await? fails: the error is returned
ConnectErr ==
    /\ pc = "connect"
    /\ connects' = connects + 1
    /\ Return("Err: connect")
    /\ log' = <<Info("Connecting to websocket...")>>
    /\ UNCHANGED <<environment, delays, outbound, frame_no, cur, handoffs,
                   unique_keys, token_metrics, classifyVars, criteriaVars, holderVars, hostVars, streamVars>>

\* ws_stream.send(Message::Text(subscribe_msg.to_string())).await succeeds
SendSubscribeOk ==
    /\ pc = "subscribe"
    /\ outbound' = Append(outbound, subscribe_msg)
    /\ pc' = "reading"
    /\ log' = <<>>
    /\ UNCHANGED <<environment, result, connects, delays, frame_no, cur, handoffs,
                   unique_keys, token_metrics, classifyVars, criteriaVars, holderVars, hostVars, streamVars>>

\* SendSubscribeErr with the send error discarded instead of returned
SendSubscribeErr_ignored ==
    /\ pc = "subscribe"
    /\ pc' = "reading"
    /\ log' = <<>>
    /\ UNCHANGED <<environment, result, connects, delays, outbound, frame_no, cur, handoffs,
                   unique_keys, token_metrics, classifyVars, criteriaVars, holderVars, hostVars, streamVars>>

\* ws_stream.send(..).await? fails: the error is returned before the loop
SendSubscribeErr ==
    /\ pc = "subscribe"
    /\ Return("Err: send")
    /\ log' = <<>>
    /\ UNCHANGED <<environment, connects, delays, outbound, frame_no, cur, handoffs,
                   unique_keys, token_metrics, classifyVars, criteriaVars, holderVars, hostVars, streamVars>>

\* ws_stream.next().await = Some(Ok(msg)): one pass of the loop body
ReadFrame ==
    /\ pc = "reading"
    /\ frame_no < MaxFrames
    /\ \E msg \in Frames :
        LET p == loop_body(msg, environment, unique_keys)
        IN  /\ frame_no' = frame_no + 1
            /\ cur' = <<[idx |-> frame_no + 1, frame |-> msg,
                         uniq_before |-> unique_keys, pass |-> p]>>
            /\ handoffs' = handoffs \o
                   [i \in 1..Len(p.handed) |-> [idx |-> frame_no + 1, event |-> p.handed[i]]]
            /\ unique_keys' = p.uniq
            /\ log' = p.logs
            /\ IF p.ret = "Ok"
                   THEN UNCHANGED <<pc, result>>
                   ELSE Return("Err: " \o p.ret)
    /\ UNCHANGED <<environment, connects, delays, outbound, token_metrics,
                   classifyVars, criteriaVars, holderVars, hostVars, streamVars>>

\* ws_stream.next().await = Some(Err(e))
ReadErr ==
    /\ pc = "reading"
    /\ Return("Err: WebSocket error")
    /\ log' = <<Error("WebSocket message error")>>
    /\ UNCHANGED <<environment, connects, delays, outbound, frame_no, cur, handoffs,
                   unique_keys, token_metrics, classifyVars, criteriaVars, holderVars, hostVars, streamVars>>

\* ws_stream.next().await = None: the stream ended (peer close, clean end)
StreamEnd ==
    /\ pc = "reading"
    /\ Return("Ok")
    /\ log' = <<>>
    /\ UNCHANGED <<environment, connects, delays, outbound, frame_no, cur, handoffs,
                   unique_keys, token_metrics, classifyVars, criteriaVars, holderVars, hostVars, streamVars>>

Next ==
    \/ ConnectOk
    \/ ConnectErr
    \/ SendSubscribeOk
    \/ SendSubscribeErr
    \/ ReadFrame
    \/ ReadErr
    \/ StreamEnd

Spec == Init /\ [][Next]_vars

(***************************************************************************)
(* SpecClassify: is_create_idempotent on every bounded notification        *)
(***************************************************************************)
InitClassify ==
    /\ environment = "Development"
    /\ MonitorIdle /\ CriteriaIdle /\ HolderIdle /\ HostIdle /\ StreamIdle
    /\ cl_input \in ClassifyInputs
    /\ cl_result = "pending"

Classify ==
    /\ cl_result = "pending"
    /\ cl_result' = is_create_idempotent(cl_input)
    /\ UNCHANGED <<monitorVars, token_metrics, cl_input, criteriaVars, holderVars, hostVars, streamVars>>

NextClassify == Classify

SpecClassify == InitClassify /\ [][NextClassify]_vars

(***************************************************************************)
(* SpecCriteria: is_valid_pump_fun_criteria on every bounded pair of       *)
(* counts                                                                   *)
(***************************************************************************)
InitCriteria ==
    /\ environment = "Development"
    /\ MonitorIdle /\ ClassifyIdle /\ HolderIdle /\ HostIdle /\ StreamIdle
    /\ cr_input \in {PumpFunCriteria(h, b) : h \in 0..MaxCount, b \in 0..MaxCount}
    /\ cr_result = <<>>

\* the check-and-log of handle_pump_fun_creation: log_criteria_check, then
\* is_valid_pump_fun_criteria, on the same criteria
Evaluate ==
    /\ cr_result = <<>>
    /\ log' = log_criteria_check(0, cr_input)
    /\ cr_result' = <<is_valid_pump_fun_criteria(cr_input)>>
    /\ UNCHANGED <<environment, pc, result, connects, delays, outbound, frame_no, cur,
                   handoffs, unique_keys, token_metrics, classifyVars, cr_input,
                   holderVars, hostVars, streamVars>>

NextCriteria == Evaluate

SpecCriteria == InitCriteria /\ [][NextCriteria]_vars

(***************************************************************************)
(* SpecHolder: get_holder_count called up to MaxCalls times against a      *)
(* ledger                                                                   *)
(***************************************************************************)
InitHolder ==
    /\ environment = "Development"
    /\ MonitorIdle /\ ClassifyIdle /\ CriteriaIdle /\ HostIdle /\ StreamIdle
    /\ ledger \in Ledgers
    /\ ledger_queries = 0
    /\ hc_calls = <<>>

\* one call of get_holder_count: it returns the placeholder, reads no cache
\* entry, writes none and issues no query
HolderCall ==
    /\ Len(hc_calls) < MaxCalls
    /\ \E t \in Tokens :
        hc_calls' = Append(hc_calls, [token |-> t, ret |-> get_holder_count(t)])
    /\ UNCHANGED <<monitorVars, token_metrics, classifyVars, criteriaVars,
                   ledger, ledger_queries, hostVars, streamVars>>

NextHolder == HolderCall

SpecHolder == InitHolder /\ [][NextHolder]_vars

(***************************************************************************)
(* SpecKeepalive: the monitor with time passing on the open connection.    *)
(* One tick is one 30-second keepalive interval spent awaiting             *)
(* ws_stream.next().  process_logs starts no task and arms no timer, so a  *)
(* tick changes nothing but the time.                                      *)
(***************************************************************************)
Tick ==
    /\ pc = "reading"
    /\ ticks < MaxTicks
    /\ ticks' = ticks + 1
    /\ UNCHANGED <<monitorVars, token_metrics, classifyVars, criteriaVars, holderVars,
                   rpc_balance, min_sol_balance, streamVars>>

NextKeepalive ==
    \/ Next
    \/ Tick

SpecKeepalive == Init /\ [][NextKeepalive]_vars

(***************************************************************************)
(* SpecStart: PoolMonitor::start (src/core/mod.rs).  The wallet balance is *)
(* queried, compared with config.wallet.min_sol_balance, and only then is  *)
(* monitor_pools, hence subscribe_to_logs, called; start returns what it   *)
(* returns.                                                                *)
(***************************************************************************)
InitStart ==
    /\ environment \in Environment
    /\ pc = "start"
    /\ result = "pending"
    /\ connects = 0
    /\ delays = <<>>
    /\ outbound = <<>>
    /\ frame_no = 0
    /\ cur = <<>>
    /\ handoffs = <<>>
    /\ unique_keys = 0
    /\ log = <<>>
    /\ token_metrics = <<>>
    /\ ClassifyIdle /\ CriteriaIdle /\ HolderIdle
    /\ rpc_balance \in {<<>>} \cup {<<b>> : b \in 0..MaxBalance}
    /\ min_sol_balance \in 0..MaxBalance
    /\ ticks = 0
    /\ StreamIdle

\* self.rpc_client.get_balance(..)? fails: start returns the error
StartBalanceErr ==
    /\ pc = "start"
    /\ rpc_balance = <<>>
    /\ Return("Err: get_balance")
    /\ log' = <<Info("Starting pool monitor...")>>
    /\ UNCHANGED <<environment, connects, delays, outbound, frame_no, cur, handoffs,
                   unique_keys, token_metrics, classifyVars, criteriaVars, holderVars, hostVars, streamVars>>

\* StartInsufficient without its early return
StartInsufficient_continues ==
    /\ pc = "start"
    /\ rpc_balance # <<>>
    /\ rpc_balance[1] < min_sol_balance
    /\ pc' = "connect"
    /\ log' = <<Info("Starting pool monitor..."), Info("Wallet balance"),
                Error("Insufficient balance for trading")>>
    /\ UNCHANGED <<environment, result, connects, delays, outbound, frame_no, cur, handoffs,
                   unique_keys, token_metrics, classifyVars, criteriaVars, holderVars, hostVars, streamVars>>

\* balance < min_sol_balance: start logs the error and returns Ok(())
StartInsufficient ==
    /\ pc = "start"
    /\ rpc_balance # <<>>
    /\ rpc_balance[1] < min_sol_balance
    /\ Return("Ok")
    /\ log' = <<Info("Starting pool monitor..."), Info("Wallet balance"),
                Error("Insufficient balance for trading")>>
    /\ UNCHANGED <<environment, connects, delays, outbound, frame_no, cur, handoffs,
                   unique_keys, token_metrics, classifyVars, criteriaVars, holderVars, hostVars, streamVars>>

\* balance >= min_sol_balance: monitor_pools calls subscribe_to_logs
StartMonitor ==
    /\ pc = "start"
    /\ rpc_balance # <<>>
    /\ ~(rpc_balance[1] < min_sol_balance)
    /\ pc' = "connect"
    /\ log' = <<Info("Starting pool monitor..."), Info("Wallet balance"),
                Info("Monitoring pools")>>
    /\ UNCHANGED <<environment, result, connects, delays, outbound, frame_no, cur, handoffs,
                   unique_keys, token_metrics, classifyVars, criteriaVars, holderVars, hostVars, streamVars>>

NextStart ==
    \/ StartBalanceErr
    \/ StartInsufficient
    \/ StartMonitor
    \/ Next

SpecStart == InitStart /\ [][NextStart]_vars

(***************************************************************************)
(* SpecStream: the monitor with the socket made explicit.  The peer        *)
(* delivers frames to the connection at any time, also while the loop body *)
(* of an earlier frame is awaiting a handler; ws_stream.next() yields the  *)
(* delivered frames oldest first.  process_logs polls next() only at the   *)
(* head of its `while let`, after the body of the previous frame has run   *)
(* to its end: the handlers are awaited in place and nothing is spawned.   *)
(***************************************************************************)
MaxArrivals == 3   \* frames the peer delivers on the connection (SpecStream)

StreamSignatures == Signatures \cup {"2jg1bLzKyyTBfZ1ThtJ6nVLmcSLNLcyXbQ3yUXZ8UTBW"}

StreamFrames ==
    {InvalidJson} \cup
    {Notification(LogsArray(<<l>>), sig, slot) :
        l \in {StrLine(<<CreateMarker, PumpFunId>>), StrLine(<<CreateMarker, DaoFunId>>)},
        sig \in StreamSignatures \cup {NoString},
        slot \in Slots}

\* the peer delivers one more frame to the open connection
Arrive ==
    /\ pc \in {"reading", "handling"}
    /\ Len(arrived) < MaxArrivals
    /\ \E msg \in StreamFrames : arrived' = Append(arrived, msg)
    /\ UNCHANGED <<monitorVars, token_metrics, classifyVars, criteriaVars, holderVars,
                   hostVars, inflight>>

\* TakeFrame polling the stream while the body of the previous frame is still
\* running, as when each frame's handling is spawned as a task of its own
TakeFrame_spawned ==
    /\ pc \in {"reading", "handling"}
    /\ frame_no < Len(arrived)
    /\ frame_no' = frame_no + 1
    /\ inflight' = <<[idx |-> frame_no + 1, frame |-> arrived[frame_no + 1]]>>
    /\ pc' = "handling"
    /\ log' = <<>>
    /\ UNCHANGED <<environment, result, connects, delays, outbound, cur, handoffs,
                   unique_keys, token_metrics, classifyVars, criteriaVars, holderVars,
                   hostVars, arrived>>

\* ws_stream.next().await = Some(Ok(msg)) at the head of the loop: the oldest
\* delivered frame not yet taken enters the loop body
TakeFrame ==
    /\ pc = "reading"
    /\ frame_no < Len(arrived)
    /\ frame_no' = frame_no + 1
    /\ inflight' = <<[idx |-> frame_no + 1, frame |-> arrived[frame_no + 1]]>>
    /\ pc' = "handling"
    /\ log' = <<>>
    /\ UNCHANGED <<environment, result, connects, delays, outbound, cur, handoffs,
                   unique_keys, token_metrics, classifyVars, criteriaVars, holderVars,
                   hostVars, arrived>>

\* the loop body of the frame taken runs to its end: back to the head of the
\* loop, or out of process_logs with the error a `?` carries
FinishFrame ==
    /\ pc = "handling"
    /\ inflight # <<>>
    /\ LET f == inflight[1]
           p == loop_body(f.frame, environment, unique_keys)
       IN  /\ cur' = <<[idx |-> f.idx, frame |-> f.frame,
                        uniq_before |-> unique_keys, pass |-> p]>>
           /\ handoffs' = handoffs \o
                  [i \in 1..Len(p.handed) |-> [idx |-> f.idx, event |-> p.handed[i]]]
           /\ unique_keys' = p.uniq
           /\ log' = p.logs
           /\ IF p.ret = "Ok"
                  THEN pc' = "reading" /\ UNCHANGED result
                  ELSE Return("Err: " \o p.ret)
    /\ inflight' = <<>>
    /\ UNCHANGED <<environment, connects, delays, outbound, frame_no, token_metrics,
                   classifyVars, criteriaVars, holderVars, hostVars, arrived>>

\* every frame delivered has been taken: the next item of the stream is its
\* error or its end
StreamDrained == frame_no = Len(arrived)

NextStream ==
    \/ ConnectOk
    \/ ConnectErr
    \/ SendSubscribeOk
    \/ SendSubscribeErr
    \/ Arrive
    \/ TakeFrame
    \/ FinishFrame
    \/ StreamDrained /\ ReadErr
    \/ StreamDrained /\ StreamEnd

SpecStream == Init /\ [][NextStream]_vars

(***************************************************************************)
(* Properties                                                              *)
(***************************************************************************)
Last == cur[1]

\* the last frame was classified as variant v by the code
LastClassified(v) == cur # <<>> /\ Last.frame.json /\ is_create_idempotent(Last.frame) = v

\* variant and environment tag belong together
Designated(v, env) ==
    \/ v = "PumpFun" /\ env = "Development"
    \/ v = "DaoFun" /\ env = "Production"

\* the loop body completed for the last frame and the loop went on to the next
\* ws_stream.next(): it is still reading, or it ended later on the stream's
\* end or on a read error
LoopContinues ==
    /\ Last.pass.ret = "Ok"
    /\ \/ pc = "reading" /\ result = "pending"
       \/ pc = "returned" /\ result \in {"Ok", "Err: WebSocket error"}

\* C1: an event reaches handle_valid_pool_creation only when the environment
\* tag is the one designated for its variant (PumpFun under Development,
\* DaoFun under Production); a notification of the other variant is dropped
\* with no extraction (no address drawn), no criteria evaluation and no
\* handoff, and the read loop goes on.
C1_EnvironmentGate ==
    /\ \A i \in 1..Len(handoffs) :
          Designated(handoffs[i].event.pool_type, environment)
    /\ \A v \in PoolType :
          (LastClassified(v) /\ ~Designated(v, environment)) =>
              /\ Last.pass.handed = <<>>
              /\ Last.pass.criteria = <<>>
              /\ unique_keys = Last.uniq_before
              /\ \A i \in 1..Len(handoffs) : handoffs[i].idx # Last.idx
              /\ LoopContinues

\* C1 witness: under Production a DaoFun event was handed over and then a
\* complete PumpFun notification was dropped at the gate.
C1_Witness ==
    /\ environment = "Production"
    /\ Len(handoffs) = 1
    /\ handoffs[1].event.pool_type = "DaoFun"
    /\ LastClassified("PumpFun")
    /\ Last.idx = 2
    /\ Last.frame.signature # NoString
    /\ Last.frame.slot # NoU64
    /\ LoopContinues

\* a transport failure ended the monitor: it returned, and neither with Ok
\* nor with a per-notification extraction error
EndedByTransportFailure ==
    /\ pc = "returned"
    /\ result \notin {"Ok", "Err: Missing signature", "Err: Missing slot"}

\* C2: the supervisor gives up only after 5 consecutive transport failures,
\* having slept 5000, 10000, 15000, 20000 and 25000 ms before its reconnects,
\* and then returns MaxRetriesExceeded.
C2_ReconnectBackoff ==
    EndedByTransportFailure =>
        /\ result = "Err: MaxRetriesExceeded"
        /\ delays = <<5000, 10000, 15000, 20000, 25000>>
        /\ connects > 1

\* the last frame was classified, passed the gate and lacks signature or slot
LastLacksEnvelopeField ==
    /\ \E v \in PoolType : LastClassified(v) /\ Designated(v, environment)
    /\ (Last.frame.signature = NoString \/ Last.frame.slot = NoU64)

\* C3: a gated notification without signature or slot is dropped on its own:
\* nothing is handed over for it, the read loop continues and no error is
\* returned to the caller.
C3_MissingFieldIsolated ==
    LastLacksEnvelopeField =>
        /\ \A i \in 1..Len(handoffs) : handoffs[i].idx # Last.idx
        /\ LoopContinues

\* the string lines of the notification given to the classifier
InputLines ==
    IF cl_input.has_result /\ cl_input.logs.kind = "array"
        THEN {cl_input.logs.items[i] : i \in 1..Len(cl_input.logs.items)}
        ELSE {}
InputMentions(w) == \E l \in InputLines : l.is_str /\ Contains(l, w)

\* C4: marker plus exactly one program identifier anywhere in the
\* notification (same line or another line) gives that identifier's variant;
\* no marker, or no result.logs array, gives none.
C4_ClassifyAnyLine ==
    cl_result # "pending" =>
        /\ (InputMentions(CreateMarker) /\ InputMentions(PumpFunId) /\ ~InputMentions(DaoFunId))
              => cl_result = "PumpFun"
        /\ (InputMentions(CreateMarker) /\ InputMentions(DaoFunId) /\ ~InputMentions(PumpFunId))
              => cl_result = "DaoFun"
        /\ ~InputMentions(CreateMarker) => cl_result = "None"

\* C5: the evaluation passes exactly when holder_count >= 140 and
\* 140 <= buy_count <= 300; 139 holders fail and 140 pass; 139 and 301 buys
\* fail and every buy count from 140 to 300 passes given enough holders.
C5_CriteriaEvaluation ==
    cr_result # <<>> =>
        LET h         == cr_input.holder_count
            b         == cr_input.buy_count
            holder_ok == h >= 140
            buy_ok    == b \in 140..300
        IN  /\ cr_result[1] = (holder_ok /\ buy_ok)
            /\ h = 139 => ~cr_result[1]
            /\ b \in {139, 301} => ~cr_result[1]
            /\ (h = 140 /\ b \in 140..300) => cr_result[1]

\* C5 witness: the evaluation passed on the inclusive boundaries.
C5_Witness ==
    /\ cr_result = <<TRUE>>
    /\ cr_input.holder_count = 140
    /\ cr_input.buy_count = 300

\* the last frame is a PumpFun notification under Development whose
\* signature and slot are present
LastIsGatedPumpFun ==
    /\ environment = "Development"
    /\ LastClassified("PumpFun")
    /\ Last.frame.signature # NoString
    /\ Last.frame.slot # NoU64

LastHandedOver == \E i \in 1..Len(handoffs) : handoffs[i].idx = Last.idx

\* C6: a PumpFun notification under Development is handed over if and only
\* if the criteria built from its enriched counts pass; either way the read
\* loop continues with the next frame.
C6_HandoffIffCriteriaPass ==
    LastIsGatedPumpFun =>
        /\ Len(Last.pass.criteria) = 1
        /\ LET c == Last.pass.criteria[1]
           IN  LastHandedOver <=>
                   (c.holder_count >= 140 /\ c.buy_count >= 140 /\ c.buy_count <= 300)
        /\ LoopContinues

\* C6 witness: a PumpFun notification under Development was evaluated and
\* handed over.
C6_Witness ==
    /\ LastIsGatedPumpFun
    /\ Len(Last.pass.criteria) = 1
    /\ LastHandedOver
    /\ handoffs[Len(handoffs)].event.pool_type = "PumpFun"

\* C7: two calls of holder_count for one token issue exactly one pair of
\* ledger queries in total, and the first call leaves the token in the cache.
C7_SecondCallCached ==
    (Len(hc_calls) = 2 /\ hc_calls[1].token = hc_calls[2].token) =>
        /\ ledger_queries = 2
        /\ hc_calls[1].token \in DOMAIN token_metrics
        /\ hc_calls[2].ret = hc_calls[1].ret

\* accounts of one sub-query that count as holders: a failed query gives none
\* and undecodable accounts are left out
RECURSIVE Positive(_)
Positive(accounts) ==
    IF accounts = <<>> THEN 0
    ELSE (IF Head(accounts) > 0 THEN 1 ELSE 0) + Positive(Tail(accounts))
Holders(q) == IF q.ok THEN Positive(q.accounts) ELSE 0

\* C8: on a cache miss holder_count returns the number of accounts with a
\* strictly positive balance over both sub-queries.
C8_HolderAggregation ==
    Len(hc_calls) >= 1 =>
        hc_calls[1].ret = Holders(ledger.legacy) + Holders(ledger.extended)

\* C9: a graceful end of the stream does not end the monitor: it never
\* returns Ok, it reconnects.
C9_GracefulCloseReconnects ==
    ~(pc = "returned" /\ result = "Ok")

\* C10: at most one frame is ever written and it is the logsSubscribe request
\* at commitment processed; whenever the read loop runs or a frame has been
\* read it has been written; when writing it failed no frame was processed.
C10_SubscribeFirst ==
    /\ Len(outbound) <= 1
    /\ (pc = "reading" \/ frame_no > 0) =>
          /\ Len(outbound) = 1
          /\ outbound[1].method = "logsSubscribe"
          /\ outbound[1].commitment = "processed"
    /\ outbound = <<>> => (frame_no = 0 /\ cur = <<>> /\ handoffs = <<>>)
    /\ result = "Err: send" => (frame_no = 0 /\ cur = <<>> /\ handoffs = <<>>)

\* C10 witness: frames were read and handed over on a connection whose only
\* outbound frame is the subscription request.
C10_Witness ==
    /\ frame_no = 2
    /\ handoffs # <<>>
    /\ outbound = <<subscribe_msg>>

\* C11: once an event has been handed to the execution collaborator the
\* notification is finished: the handoff returns Ok to its handler, the loop
\* body returns Ok, the read loop goes on to later frames, and the only
\* values subscribe_to_logs can still return are the stream's own end or
\* transport error, never an error of the handoff.
C11_ExecutionFailureIsolated ==
    (cur # <<>> /\ LastHandedOver) => LoopContinues

\* C11 witness: the first frame's event was handed over and the loop went on
\* to read and process a second frame.
C11_Witness ==
    /\ frame_no = 2
    /\ Len(handoffs) >= 1
    /\ handoffs[1].idx = 1
    /\ Last.idx = 2
    /\ pc = "reading"
    /\ result = "pending"

\* number of frames whose loop body has run to its end
Completed == IF cur = <<>> THEN 0 ELSE Last.idx

\* C12: one consumer processes the frames in arrival order, one at a time:
\* at most one frame is in the loop body; it is the newest frame taken, it
\* was taken in arrival order, and the body of every frame that arrived
\* before it has run to its end; while none is in the body every frame taken
\* has been finished; each handoff is for a finished frame and carries that
\* frame's signature, and handoffs follow the arrival order of their frames.
C12_ArrivalOrder ==
    /\ Len(inflight) <= 1
    /\ frame_no <= Len(arrived)
    /\ inflight # <<>> =>
          /\ inflight[1].idx = frame_no
          /\ inflight[1].frame = arrived[frame_no]
          /\ Completed = frame_no - 1
    /\ inflight = <<>> => Completed = frame_no
    /\ cur # <<>> => Last.frame = arrived[Last.idx]
    /\ \A i \in 1..Len(handoffs) :
          /\ handoffs[i].idx \in 1..Completed
          /\ handoffs[i].event.signature = arrived[handoffs[i].idx].signature
    /\ \A i, j \in 1..Len(handoffs) : i < j => handoffs[i].idx < handoffs[j].idx

\* C12 witness: the first frame's event has been handed over, the second
\* frame is in the loop body, and a third frame has already arrived and
\* waits in the socket.
C12_Witness ==
    /\ pc = "handling"
    /\ inflight # <<>>
    /\ inflight[1].idx = 2
    /\ Len(arrived) = 3
    /\ Len(handoffs) = 1
    /\ handoffs[1].idx = 1

\* C13: a frame that is not valid JSON is skipped on its own: it is not
\* classified (no address drawn, no criteria), nothing is handed over for it,
\* the loop body returns Ok and the read loop goes on.
C13_DecodeErrorSkipped ==
    (cur # <<>> /\ ~Last.frame.json) =>
        /\ Last.pass.handed = <<>>
        /\ Last.pass.criteria = <<>>
        /\ unique_keys = Last.uniq_before
        /\ ~LastHandedOver
        /\ LoopContinues

\* C13 witness: the second frame was not JSON, it was skipped after the first
\* frame's handoff and the loop is still reading.
C13_Witness ==
    /\ cur # <<>>
    /\ ~Last.frame.json
    /\ Last.idx = 2
    /\ Len(handoffs) = 1
    /\ pc = "reading"

\* a record at warn or error level among those the last pass emitted
LastPassLoggedProblem ==
    \E i \in 1..Len(Last.pass.logs) : Last.pass.logs[i].level \in {"warn", "error"}

\* C14: no item is skipped silently: a frame that is not JSON and a gated
\* notification lacking signature or slot each leave a log record of the
\* problem, and a transport error is logged before the monitor returns.
C14_SkippedItemsLogged ==
    /\ (cur # <<>> /\ ~Last.frame.json) => Last.pass.logs # <<>>
    /\ (cur # <<>> /\ LastLacksEnvelopeField) => LastPassLoggedProblem
    /\ (pc = "returned" /\ result = "Err: WebSocket error") =>
          \E i \in 1..Len(log) : log[i].level = "error"

\* index of the first line of the notification that holds the creation marker
\* together with identifier id; 0 when there is none
FirstMarked(id) ==
    LET items == IF cl_input.has_result /\ cl_input.logs.kind = "array"
                    THEN cl_input.logs.items ELSE <<>>
        hits  == {k \in 1..Len(items) : /\ items[k].is_str
                                        /\ Contains(items[k], CreateMarker)
                                        /\ Contains(items[k], id)}
    IN  IF hits = {} THEN 0 ELSE CHOOSE k \in hits : \A m \in hits : k <= m

\* C15: when a notification holds creation-marker lines for both program
\* identifiers, the classifier returns the variant whose line comes first.
C15_FirstInLineOrder ==
    (cl_result # "pending" /\ FirstMarked(PumpFunId) > 0 /\ FirstMarked(DaoFunId) > 0) =>
        /\ FirstMarked(PumpFunId) < FirstMarked(DaoFunId) => cl_result = "PumpFun"
        /\ FirstMarked(DaoFunId) < FirstMarked(PumpFunId) => cl_result = "DaoFun"

\* C15 witness: a DaoFun creation line followed by a PumpFun creation line was
\* classified DaoFun.
C15_Witness ==
    /\ cl_result = "DaoFun"
    /\ FirstMarked(DaoFunId) = 1
    /\ FirstMarked(PumpFunId) = 2

\* C16: a keepalive task runs beside the read loop and writes a ping frame
\* every 30 seconds: after each interval elapsed on the open connection one
\* more frame has been written after the subscription request, and the read
\* loop is still running.
C16_KeepalivePings ==
    ticks > 0 =>
        /\ Len(outbound) = 1 + ticks
        /\ \A i \in 2..Len(outbound) : outbound[i] # subscribe_msg

\* the last frame is a DaoFun notification under Production whose signature
\* and slot are present
LastIsGatedDaoFun ==
    /\ environment = "Production"
    /\ LastClassified("DaoFun")
    /\ Last.frame.signature # NoString
    /\ Last.frame.slot # NoU64

\* C17: a gated DaoFun notification with signature and slot is always handed
\* over, with no criteria built (no holder or buy lookup) and no validation
\* record logged.
C17_DaoFunUnconditional ==
    LastIsGatedDaoFun =>
        /\ LastHandedOver
        /\ Len(Last.pass.handed) = 1
        /\ Last.pass.handed[1].pool_type = "DaoFun"
        /\ Last.pass.criteria = <<>>
        /\ \A i \in 1..Len(Last.pass.logs) :
              Last.pass.logs[i].msg \notin {"Token validation", "Pool creation ignored"}

\* C17 witness: under Production a DaoFun notification was handed over.
C17_Witness ==
    /\ LastIsGatedDaoFun
    /\ LastHandedOver
    /\ handoffs[Len(handoffs)].event.pool_type = "DaoFun"
    /\ handoffs[Len(handoffs)].idx = Last.idx

\* C18: the event handed over after the criteria passed carries the counts
\* that were evaluated.
C18_EventCarriesCounts ==
    (LastIsGatedPumpFun /\ LastHandedOver) =>
        /\ Last.pass.handed[1].holder_count = Last.pass.criteria[1].holder_count
        /\ Last.pass.handed[1].buy_count = Last.pass.criteria[1].buy_count

\* C19: subscribe_to_logs is entered only after the balance query succeeded
\* with a balance of at least min_sol_balance; a failed query makes start
\* return that error, a balance below the minimum makes it return Ok, and in
\* both cases no connection is ever opened.
C19_BalanceGate ==
    /\ (pc \in {"connect", "subscribe", "reading"} \/ connects > 0) =>
          (rpc_balance # <<>> /\ rpc_balance[1] >= min_sol_balance)
    /\ (pc # "start" /\ rpc_balance = <<>>) =>
          (pc = "returned" /\ result = "Err: get_balance" /\ connects = 0 /\ outbound = <<>>)
    /\ (pc # "start" /\ rpc_balance # <<>> /\ rpc_balance[1] < min_sol_balance) =>
          (pc = "returned" /\ result = "Ok" /\ connects = 0 /\ outbound = <<>>)

\* C19 witness: with the balance exactly at a positive minimum the monitor
\* connected, subscribed and read a frame.
C19_Witness ==
    /\ rpc_balance # <<>>
    /\ min_sol_balance > 0
    /\ rpc_balance[1] = min_sol_balance
    /\ connects = 1
    /\ frame_no > 0

\* the 'Pool creation ignored' warning is among the records of the last step
IgnoredWarned ==
    \E i \in 1..Len(log) : log[i].level = "warn" /\ log[i].msg = "Pool creation ignored"

\* C20: what log_criteria_check logs agrees with what is_valid_pump_fun_criteria
\* decides: the 'Pool creation ignored' warning is emitted exactly when the
\* evaluation fails, the holder mark is holder_count >= 140, the buy mark is
\* 140 <= buy_count <= 300, and the evaluation passes exactly when both marks
\* are set.
C20_LogAgreesWithDecision ==
    cr_result # <<>> =>
        /\ IgnoredWarned <=> ~cr_result[1]
        /\ Len(log) >= 1
        /\ log[1].msg = "Token validation"
        /\ log[1].holder_mark = (cr_input.holder_count >= 140)
        /\ log[1].buy_mark = (cr_input.buy_count >= 140 /\ cr_input.buy_count <= 300)
        /\ cr_result[1] = (log[1].holder_mark /\ log[1].buy_mark)

\* C20 witness: enough holders and one buy too many: the evaluation failed,
\* the warning was logged, the holder mark is set and the buy mark is not.
C20_Witness ==
    /\ cr_result = <<FALSE>>
    /\ cr_input.holder_count = 140
    /\ cr_input.buy_count = 301
    /\ IgnoredWarned
    /\ log[1].holder_mark
    /\ ~log[1].buy_mark

====
